---- MODULE Spec2Model ----
(***************************************************************************)
(* Hotkey-driven recording-session controller of src/main.ts:              *)
(* handleHotkeyDown / handleHotkeyUp, their timers and deferred tasks, and  *)
(* the PushToTalkService they drive.                                       *)
(*                                                                         *)
(* Time is kept in milliseconds as clocks relative to "now": the age of    *)
(* lastFnKeyTime and the remaining delay of every pending timer.  Tick     *)
(* advances all clocks to the next instant of interest.  Promise continuations run in the step     *)
(* that settles their promise.                                             *)
(*                                                                         *)
(* The OnboardingFlow component of the renderer (step navigation and its   *)
(* gates) is modelled next to it, on variables of its own.                 *)
(***************************************************************************)
EXTENDS Integers, Sequences, FiniteSets

\* ------------------------------------------------------------------ bounds
MaxPending == 2     \* promises in flight, suspended handlers and reset timers, together
MaxCount == 2       \* observation counters saturate here
MaxEvents == 4      \* key events and settings events in a run that changes settings

\* ------------------------------------------------------- program constants
DoubleTapMin == 20          \* timeSinceLastPress > 20
DoubleTapMax == 600         \* timeSinceLastPress < 600
SingleTapDelay == 250       \* setTimeout(..., 250)
CleanupDelay == 10          \* setTimeout(resolve, 10)
PendingStopResetDelay == 100 \* setTimeout(..., 100)

RestartDelay == 200         \* restartHotkeyMonitoring(delay = 200)
HotkeyRestartDelay == 250   \* this.restartHotkeyMonitoring(250)
FallbackDelay == 100        \* setTimeout(() => startHotkeyMonitoring(), 100)

WelcomeStep == 0        \* if (currentStep === 0)
PermissionsStep == 3    \* if (currentStep === 3)
LastStep == 7           \* steps.length - 1

NoPress == -1       \* lastFnKeyTime = 0
NoTimer == -1       \* pendingSingleTapTimeout = null

VARIABLES
  sinceLastPress,          \* Date.now() - lastFnKeyTime, saturated at DoubleTapMax; NoPress when lastFnKeyTime = 0
  pendingSingleTapTimeout, \* remaining ms of the single-tap timer, or NoTimer
  isHandsFreeModeActive,
  pendingHandsFreeStop,
  dictationMode,           \* AppState dictation mode written by setDictationMode
  pushToTalkService,       \* fields of the PushToTalkService instance
  calls,                   \* backend promises in flight, by kind
  immediates,              \* deferred hardStop tasks queued by setImmediate
  cleanupWaits,            \* double-tap handlers suspended on the 10 ms delay (remaining ms, FIFO)
  resetTimers,             \* pending 100 ms pendingHandsFreeStop reset timers (remaining ms, FIFO)
  settings,                \* AppSettingsService: hotkey, audioFeedback, useDeepgramStreaming
  universalKeyService,     \* the key the bound UniversalKeyService listens to, or NoMonitor
  boundMonitors,           \* UniversalKeyService instances started and not stopped
  isHotkeyMonitoringActive,
  lastActiveHotkey,
  serviceConfig,           \* what the PushToTalkService instance was constructed with, or NoService
  restartTimers,           \* pending restartHotkeyMonitoring timers (remaining ms)
  deactivated,             \* deactivation or quit has stopped monitoring and no activation followed
  onboardingCompleted,     \* what hasCompletedOnboarding() returns
  isVoiceTutorialMode,
  currentStep,             \* OnboardingFlow: index of the step shown
  userName,                \* OnboardingFlow: the name reported by the welcome screen
  corePermissionsGranted,  \* OnboardingFlow: what the permissions screen reported last
  isTransitioning,
  transitions,             \* OnboardingFlow: pending 150 ms timers, each with the step it will set (FIFO)
  osPermissions,           \* microphone and accessibility are both granted in the system
  eventsLeft,              \* external events the run may still take, or Unlimited
  out,                     \* what the last step did: [by, emits], and for a KeyDown its timeSinceLastPress
  sent,                    \* notifications and backend calls counted since the episode began
  openStarts,              \* start() requests not yet ended by stop(), hardStop() or a failure
  dictation,               \* how the dictation-start / dictation-stop notifications sent so far pair up
  ep                       \* the gesture episode under observation

vars == <<sinceLastPress, pendingSingleTapTimeout, isHandsFreeModeActive,
          pendingHandsFreeStop, dictationMode, pushToTalkService, calls, immediates,
          cleanupWaits, resetTimers, settings, universalKeyService, boundMonitors,
          isHotkeyMonitoringActive, lastActiveHotkey, serviceConfig, restartTimers,
          deactivated, onboardingCompleted, isVoiceTutorialMode, currentStep, userName,
          corePermissionsGranted, isTransitioning, transitions, osPermissions, eventsLeft, out, sent, openStarts,
          dictation, ep>>

\* what hasCompletedOnboarding() and the tutorial screen decide
onb == <<onboardingCompleted, isVoiceTutorialMode>>

\* the state of the OnboardingFlow component in the renderer
flow == <<currentStep, userName, corePermissionsGranted, isTransitioning, transitions,
          osPermissions>>

\* hotkey monitoring and the settings it is built from, and the onboarding
\* state: what no key handler, timer or backend completion writes
mon == <<settings, universalKeyService, boundMonitors, isHotkeyMonitoringActive,
         lastActiveHotkey, serviceConfig, restartTimers, deactivated, onb, flow>>

ctl == <<sinceLastPress, pendingSingleTapTimeout, isHandsFreeModeActive,
         pendingHandsFreeStop, dictationMode, pushToTalkService, calls, immediates,
         cleanupWaits, resetTimers>>

\* ------------------------------------------------------------------ helpers
Min2(a, b) == IF a < b THEN a ELSE b
Max2(a, b) == IF a > b THEN a ELSE b

Channels == {"push-to-talk-start", "push-to-talk-stop", "push-to-talk-cancel",
             "dictation-start", "dictation-stop", "transcription-complete",
             "recording-on", "recording-off"}
BackendOps == {"start()", "stop()", "hardStop()"}
Observed == Channels \cup BackendOps
\* what an episode counts
Counted == {"push-to-talk-stop", "push-to-talk-cancel", "dictation-start", "dictation-stop",
            "start()", "stop()", "hardStop()"}

\* kinds of backend promise: the operation, the code awaiting it, and for a
\* start() whether hardStop() aborted it and whether it still counts as open
CallKinds ==
  [op : {"start"}, cont : {"ptt", "hf"}, aborted : BOOLEAN, open : BOOLEAN]
  \cup [op : {"stop"}, cont : {"ptt", "hfexit"}, aborted : BOOLEAN, open : {FALSE}]

StartCall(cont) == [op |-> "start", cont |-> cont, aborted |-> FALSE, open |-> TRUE]
StopCall(cont) == [op |-> "stop", cont |-> cont, aborted |-> FALSE, open |-> FALSE]

RECURSIVE SumOver(_, _)
SumOver(f, S) == IF S = {} THEN 0
                 ELSE LET x == CHOOSE y \in S : TRUE IN f[x] + SumOver(f, S \ {x})

InFlight == SumOver(calls, CallKinds)
Pending == InFlight + Len(cleanupWaits) + Len(resetTimers) + Len(restartTimers)

NoCalls == [k \in CallKinds |-> 0]
AddCall(cs, k) == [cs EXCEPT ![k] = @ + 1]
DropCall(cs, k) == [cs EXCEPT ![k] = @ - 1]

RECURSIVE CountAll(_, _)
CountAll(f, e) == IF e = <<>> THEN f
                  ELSE IF Head(e) \notin Counted THEN CountAll(f, Tail(e))
                  ELSE CountAll([f EXCEPT ![Head(e)] = Min2(@ + 1, MaxCount)], Tail(e))
NoneSent == [c \in Counted |-> 0]

Emitted(c) == Cardinality({i \in 1..Len(out.emits) : out.emits[i] = c})

\* ------------------------------------------------------ hotkey monitoring
Hotkeys == {"fn", "option"}
\* hotkey settings that ['fn', 'option', 'control'].includes() rejects
UnsupportedHotkeys == {"space", "command"}
NoMonitor == "none"
NoService == [exists |-> FALSE, audioFeedback |-> FALSE, streaming |-> FALSE]
Settings == [hotkey : Hotkeys, audioFeedback : BOOLEAN, useDeepgramStreaming : BOOLEAN]
AnySettings == [hotkey : Hotkeys \cup UnsupportedHotkeys, audioFeedback : BOOLEAN,
                useDeepgramStreaming : BOOLEAN]
DefaultSettings == [hotkey |-> "fn", audioFeedback |-> TRUE, useDeepgramStreaming |-> FALSE]
\* new PushToTalkService(..., allSettings.audioFeedback, shouldUseStreaming)
ConfigOf(st) ==
  [exists |-> TRUE, audioFeedback |-> st.audioFeedback, streaming |-> st.useDeepgramStreaming]

\* key events are delivered while a UniversalKeyService is bound
Monitored == universalKeyService # NoMonitor

\* key events and settings events are counted down when the run is limited
Unlimited == 0 - 1
ExternalEvent ==
  /\ eventsLeft # 0
  /\ eventsLeft' = IF eventsLeft = Unlimited THEN Unlimited ELSE eventsLeft - 1
HasService == serviceConfig.exists

\* ------------------------------------------------------------- the backend
\* PushToTalkService: start() and stop() return promises that settle later,
\* hardStop() is synchronous.  `active` and recordingStartTime are set when a
\* start() succeeds; stop() ends capture and transcribes until it settles;
\* hardStop() drops capture and transcription and aborts what is in flight.
NewService == [active |-> FALSE, transcribing |-> FALSE, recordingStartTime |-> FALSE,
               isHandsFreeMode |-> FALSE, startedFromSingleTap |-> FALSE]

ServiceStop(svc) == [svc EXCEPT !.active = FALSE, !.transcribing = TRUE]

ServiceHardStop(svc) ==
  [svc EXCEPT !.active = FALSE, !.transcribing = FALSE, !.recordingStartTime = FALSE]

\* in-flight promises after hardStop(): every one is aborted, none is open
AbortCalls(cs) ==
  [k \in CallKinds |->
     IF k.aborted /\ ~k.open
     THEN cs[k] + (IF k.op = "start"
                   THEN cs[[k EXCEPT !.open = TRUE]] + cs[[k EXCEPT !.aborted = FALSE]]
                        + cs[[k EXCEPT !.aborted = FALSE, !.open = TRUE]]
                   ELSE cs[[k EXCEPT !.aborted = FALSE]])
     ELSE 0]

\* in-flight promises after stop(): pending start() requests no longer count as open
CloseCalls(cs) ==
  [k \in CallKinds |->
     IF k.op = "start"
     THEN (IF k.open THEN 0 ELSE cs[k] + cs[[k EXCEPT !.open = TRUE]])
     ELSE cs[k]]

LiveStops(cs) == SumOver(cs, {k \in CallKinds : k.op = "stop" /\ ~k.aborted})

Busy(svc) == svc.active \/ svc.transcribing

\* ---------------------------------------------------------- the observation
NoEpisode == [kind |-> "off", downs |-> 0, gap |-> "none", ups |-> 0, upActive |-> FALSE,
              upAt |-> NoPress, path |-> <<>>]

\* the session state of the specification's state machine, read off the program state
Phase ==
  IF isHandsFreeModeActive THEN "ActiveHandsFree"
  ELSE IF pushToTalkService.active THEN "ActivePTT"
  ELSE IF pushToTalkService.transcribing THEN "Stopping"
  ELSE IF SumOver(calls, {k \in CallKinds : k.op = "start" /\ ~k.aborted}) > 0 THEN "Starting"
  ELSE "Idle"

Visit(path, ph) ==
  IF Len(path) >= 5 \/ (path # <<>> /\ path[Len(path)] = ph) THEN path
  ELSE Append(path, ph)

GapClass(d) == IF d = NoPress \/ d >= DoubleTapMax THEN "slow"
               ELSE IF d <= DoubleTapMin THEN "bounce" ELSE "double"

\* nothing recorded, pending, suspended or in flight
IdleQuiescent ==
  /\ ~isHandsFreeModeActive /\ ~pendingHandsFreeStop
  /\ pushToTalkService = NewService
  /\ InFlight = 0 /\ immediates = 0
  /\ cleanupWaits = <<>> /\ resetTimers = <<>>
  /\ pendingSingleTapTimeout = NoTimer
  /\ sinceLastPress \in {NoPress, DoubleTapMax}

ExitWithStop == isHandsFreeModeActive /\ ~pendingHandsFreeStop /\ Busy(pushToTalkService)

Unwatched == [NoEpisode EXCEPT !.kind = "unwatched"]

EpisodeOnDown ==
  IF ep.kind = "unwatched" THEN ep
  ELSE IF IdleQuiescent
  THEN [NoEpisode EXCEPT !.kind = "tap", !.downs = 1]
  ELSE IF ep.kind = "tap" /\ ep.downs = 1 /\ GapClass(sinceLastPress) = "double"
  THEN [ep EXCEPT !.downs = 2, !.gap = "double"]
  ELSE IF ep.kind = "exit" THEN [ep EXCEPT !.downs = 2]
  ELSE IF ExitWithStop
  THEN [NoEpisode EXCEPT !.kind = "exit", !.downs = 1]
  ELSE NoEpisode

EpisodeOnUp ==
  IF ep.kind = "unwatched" THEN ep
  ELSE IF ep.kind = "exit" \/ (ep.kind = "tap" /\ ep.ups = 0)
  THEN [ep EXCEPT !.ups = Min2(@ + 1, 2),
                  !.upActive = IF ep.ups = 0
                               THEN pushToTalkService.active /\ pushToTalkService.recordingStartTime
                               ELSE @,
                  !.upAt = IF ep.ups = 0 THEN sinceLastPress ELSE @]
  ELSE NoEpisode

\* the dictation notifications as the renderer receives them, one after the
\* other: "closed" when every dictation-start has had its dictation-stop,
\* "open" after an unmatched dictation-start
RECURSIVE PairUp(_, _)
PairUp(d, e) ==
  IF e = <<>> \/ d = "unobserved" THEN d
  ELSE PairUp(IF Head(e) = "dictation-start"
              THEN (IF d = "closed" THEN "open" ELSE "second start")
              ELSE IF Head(e) = "dictation-stop"
              THEN (IF d = "open" THEN "closed" ELSE "unmatched stop")
              ELSE d,
              Tail(e))

Observe(by, e, nep) ==
  /\ dictation' = PairUp(dictation, e)
  /\ out' = [by |-> by, emits |-> e,
             dt |-> IF by = "KeyDown" THEN sinceLastPress ELSE NoPress]
  /\ ep' = IF nep.kind = "tap" /\ ~(nep.downs = 1 /\ by = "KeyDown")
           THEN [nep EXCEPT !.path = Visit(@, Phase)] ELSE nep
  /\ sent' = IF nep.kind \in {"off", "unwatched"} THEN NoneSent
             ELSE IF nep.kind = "exitDone" /\ ep.kind = "exitDone" THEN sent
             ELSE IF nep.downs = 1 /\ by = "KeyDown" THEN CountAll(NoneSent, e)
             ELSE CountAll(sent, e)

Keep(by, e) == Observe(by, e, ep)

\* ------------------------------------------------------------ initial state
Init ==
  /\ sinceLastPress = NoPress
  /\ pendingSingleTapTimeout = NoTimer
  /\ isHandsFreeModeActive = FALSE
  /\ pendingHandsFreeStop = FALSE
  /\ dictationMode = FALSE
  /\ pushToTalkService = NewService
  /\ calls = NoCalls
  /\ immediates = 0
  /\ cleanupWaits = <<>>
  /\ resetTimers = <<>>
  /\ settings = DefaultSettings
  /\ universalKeyService = DefaultSettings.hotkey
  /\ boundMonitors = 1
  /\ isHotkeyMonitoringActive = TRUE
  /\ lastActiveHotkey = DefaultSettings.hotkey
  /\ serviceConfig = ConfigOf(DefaultSettings)
  /\ restartTimers = <<>>
  /\ deactivated = FALSE
  /\ onboardingCompleted = TRUE
  /\ isVoiceTutorialMode = FALSE
  /\ currentStep = WelcomeStep
  /\ userName = ""
  /\ corePermissionsGranted = FALSE
  /\ isTransitioning = FALSE
  /\ transitions = <<>>
  /\ osPermissions = FALSE
  /\ eventsLeft = Unlimited
  /\ out = [by |-> "Init", emits |-> <<>>, dt |-> NoPress]
  /\ sent = NoneSent
  /\ openStarts = 0
  /\ dictation = "unobserved"
  /\ ep = Unwatched

\* --------------------------------------------------------- handleHotkeyDown
\* the immediate UI feedback every processed KeyDown sends first
DownFeedback == <<"push-to-talk-start", "recording-on">>

\* the pendingHandsFreeStop guard placed after the UI feedback
KeyDownIgnoredAfterFeedback ==
  /\ Monitored /\ ExternalEvent
  /\ pendingHandsFreeStop
  /\ UNCHANGED <<ctl, openStarts>>
  /\ Observe("KeyDown", DownFeedback, EpisodeOnDown)
  /\ UNCHANGED mon

\* a KeyDown while pendingHandsFreeStop is set returns at once
KeyDownIgnored ==
  /\ Monitored /\ ExternalEvent
  /\ pendingHandsFreeStop
  /\ UNCHANGED <<ctl, openStarts>>
  /\ Observe("KeyDown", <<>>, EpisodeOnDown)
  /\ UNCHANGED mon

\* a KeyDown in hands-free mode ends it, awaiting stop() when the backend is busy
KeyDownExitHandsFree ==
  /\ Monitored /\ ExternalEvent
  /\ ~pendingHandsFreeStop
  /\ isHandsFreeModeActive
  /\ isHandsFreeModeActive' = FALSE
  /\ IF Busy(pushToTalkService)
     THEN /\ Pending < MaxPending
          /\ pendingHandsFreeStop' = TRUE
          /\ pushToTalkService' = ServiceStop(pushToTalkService)
          /\ calls' = AddCall(CloseCalls(calls), StopCall("hfexit"))
          /\ openStarts' = 0
          /\ UNCHANGED <<sinceLastPress, dictationMode>>
          /\ Observe("KeyDown", DownFeedback \o <<"stop()">>, EpisodeOnDown)
     ELSE /\ pendingHandsFreeStop' = FALSE
          /\ pushToTalkService' = [pushToTalkService EXCEPT !.isHandsFreeMode = FALSE]
          /\ dictationMode' = FALSE
          /\ sinceLastPress' = NoPress
          /\ UNCHANGED <<calls, openStarts>>
          /\ Observe("KeyDown", DownFeedback \o <<"dictation-stop">>, EpisodeOnDown)
  /\ UNCHANGED <<pendingSingleTapTimeout, immediates, cleanupWaits, resetTimers>>
  /\ UNCHANGED mon

\* the classification without its lower bound: no debounce
IsDoubleTapNoDebounce ==
  sinceLastPress # NoPress /\ sinceLastPress < DoubleTapMax

\* the classification without its upper bound: no window
IsDoubleTapNoWindow ==
  sinceLastPress # NoPress /\ sinceLastPress > DoubleTapMin

\* the classification with both bounds inclusive
IsDoubleTapInclusive ==
  sinceLastPress # NoPress /\ sinceLastPress <= DoubleTapMax /\ sinceLastPress >= DoubleTapMin

\* lastFnKeyTime > 0 && timeSinceLastPress < 600 && timeSinceLastPress > 20
IsDoubleTap ==
  sinceLastPress # NoPress /\ sinceLastPress < DoubleTapMax /\ sinceLastPress > DoubleTapMin

\* entering hands-free mode: flags, dictation-start, then await start()
EnterHandsFree ==
  /\ isHandsFreeModeActive' = TRUE
  /\ sinceLastPress' = NoPress
  /\ IF HasService
     THEN /\ pushToTalkService' = [pushToTalkService EXCEPT !.isHandsFreeMode = TRUE]
          /\ calls' = AddCall(calls, StartCall("hf"))
          /\ openStarts' = Min2(openStarts + 1, MaxCount)
     ELSE UNCHANGED <<pushToTalkService, calls, openStarts>>

NeedsCancel ==
  Busy(pushToTalkService) \/ pushToTalkService.startedFromSingleTap

\* second press inside the double-tap window
KeyDownDoubleTap ==
  /\ Monitored /\ ExternalEvent
  /\ ~pendingHandsFreeStop /\ ~isHandsFreeModeActive
  /\ IsDoubleTap
  /\ Pending < MaxPending
  /\ pendingSingleTapTimeout' = NoTimer
  /\ IF NeedsCancel
     THEN /\ immediates' = immediates + 1
          /\ cleanupWaits' = Append(cleanupWaits, CleanupDelay)
          /\ UNCHANGED <<isHandsFreeModeActive, pushToTalkService, sinceLastPress, calls,
                         openStarts>>
          /\ Observe("KeyDown",
                     DownFeedback \o <<"push-to-talk-cancel", "transcription-complete">>,
                     EpisodeOnDown)
     ELSE /\ EnterHandsFree
          /\ UNCHANGED <<immediates, cleanupWaits>>
          /\ Observe("KeyDown", DownFeedback \o <<"dictation-start", "start()">>,
                     EpisodeOnDown)
  /\ UNCHANGED <<pendingHandsFreeStop, dictationMode, resetTimers>>
  /\ UNCHANGED mon

\* the deferred onboarding check of a single-tap press: it reads only the
\* onboarding flags and, when recording is not allowed, sends
\* push-to-talk-start once more and returns from its own callback
ShouldAllowRecording == isVoiceTutorialMode \/ onboardingCompleted
AuthCheckEmits == IF ShouldAllowRecording THEN <<>> ELSE <<"push-to-talk-start">>

\* a press that is not a double-tap, backend idle: optimistic start
KeyDownStart ==
  /\ Monitored /\ ExternalEvent
  /\ ~pendingHandsFreeStop /\ ~isHandsFreeModeActive
  /\ ~IsDoubleTap
  /\ ~Busy(pushToTalkService)
  /\ Pending < MaxPending
  /\ sinceLastPress' = 0
  /\ pushToTalkService' = [pushToTalkService EXCEPT !.startedFromSingleTap = TRUE]
  /\ calls' = AddCall(calls, StartCall("ptt"))
  /\ openStarts' = Min2(openStarts + 1, MaxCount)
  /\ pendingSingleTapTimeout' = SingleTapDelay
  /\ Observe("KeyDown",
             DownFeedback \o <<"push-to-talk-start", "start()">> \o AuthCheckEmits,
             EpisodeOnDown)
  /\ UNCHANGED <<isHandsFreeModeActive, pendingHandsFreeStop, dictationMode, immediates,
                 cleanupWaits, resetTimers>>
  /\ UNCHANGED mon

\* a re-press that ends the recording with the graceful stop() instead
KeyDownCancelGraceful ==
  /\ Monitored /\ ExternalEvent
  /\ ~pendingHandsFreeStop /\ ~isHandsFreeModeActive
  /\ ~IsDoubleTap
  /\ Busy(pushToTalkService)
  /\ Pending < MaxPending
  /\ sinceLastPress' = 0
  /\ pushToTalkService' = ServiceStop(pushToTalkService)
  /\ calls' = AddCall(CloseCalls(calls), StopCall("ptt"))
  /\ openStarts' = 0
  /\ pendingSingleTapTimeout' = SingleTapDelay
  /\ Observe("KeyDown",
             DownFeedback \o <<"stop()", "push-to-talk-cancel", "transcription-complete">>,
             EpisodeOnDown)
  /\ UNCHANGED <<isHandsFreeModeActive, pendingHandsFreeStop, dictationMode, immediates,
                 cleanupWaits, resetTimers>>
  /\ UNCHANGED mon

\* a press that is not a double-tap, backend active or transcribing: cancel
KeyDownCancel ==
  /\ Monitored /\ ExternalEvent
  /\ ~pendingHandsFreeStop /\ ~isHandsFreeModeActive
  /\ ~IsDoubleTap
  /\ Busy(pushToTalkService)
  /\ sinceLastPress' = 0
  /\ pushToTalkService' = [ServiceHardStop(pushToTalkService) EXCEPT !.active = FALSE]
  /\ calls' = AbortCalls(calls)
  /\ openStarts' = 0
  /\ pendingSingleTapTimeout' = SingleTapDelay
  /\ Observe("KeyDown",
             DownFeedback \o <<"hardStop()", "push-to-talk-cancel", "transcription-complete">>
               \o AuthCheckEmits,
             EpisodeOnDown)
  /\ UNCHANGED <<isHandsFreeModeActive, pendingHandsFreeStop, dictationMode, immediates,
                 cleanupWaits, resetTimers>>
  /\ UNCHANGED mon

handleHotkeyDown ==
  \/ KeyDownIgnored
  \/ KeyDownExitHandsFree
  \/ KeyDownDoubleTap
  \/ KeyDownStart
  \/ KeyDownCancel

\* ----------------------------------------------------------- handleHotkeyUp
UpFeedback == <<"push-to-talk-stop", "recording-off">>

\* a release that takes hands-free mode for push-to-talk and leaves it
KeyUpSkippedEndsHandsFree ==
  /\ Monitored /\ ExternalEvent
  /\ isHandsFreeModeActive \/ pendingHandsFreeStop
  /\ pushToTalkService' = [pushToTalkService EXCEPT !.startedFromSingleTap = FALSE]
  /\ isHandsFreeModeActive' = FALSE
  /\ UNCHANGED <<sinceLastPress, pendingSingleTapTimeout, pendingHandsFreeStop, dictationMode,
                 calls, immediates, cleanupWaits, resetTimers, openStarts>>
  /\ Observe("KeyUp", UpFeedback, EpisodeOnUp)
  /\ UNCHANGED mon

\* release while hands-free is active or its stop is pending: no backend call;
\* a pending stop gets a 100 ms timer that clears pendingHandsFreeStop
KeyUpSkipped ==
  /\ Monitored /\ ExternalEvent
  /\ isHandsFreeModeActive \/ pendingHandsFreeStop
  /\ pushToTalkService' = [pushToTalkService EXCEPT !.startedFromSingleTap = FALSE]
  /\ IF pendingHandsFreeStop
     THEN /\ Pending < MaxPending
          /\ resetTimers' = Append(resetTimers, PendingStopResetDelay)
     ELSE UNCHANGED resetTimers
  /\ UNCHANGED <<sinceLastPress, pendingSingleTapTimeout, isHandsFreeModeActive,
                 pendingHandsFreeStop, dictationMode, calls, immediates, cleanupWaits,
                 openStarts>>
  /\ Observe("KeyUp", UpFeedback, EpisodeOnUp)
  /\ UNCHANGED mon

\* the release test without `active`: any recorded start time
ShouldStopOnReleaseAnyRecording ==
  pushToTalkService.recordingStartTime

ShouldStopOnRelease ==
  pushToTalkService.active /\ pushToTalkService.recordingStartTime

\* push-to-talk release with the backend recording: stopPushToTalk()
KeyUpStop ==
  /\ Monitored /\ ExternalEvent
  /\ ~isHandsFreeModeActive /\ ~pendingHandsFreeStop
  /\ ShouldStopOnRelease
  /\ Pending < MaxPending
  /\ pushToTalkService' =
       ServiceStop([pushToTalkService EXCEPT !.startedFromSingleTap = FALSE])
  /\ calls' = AddCall(CloseCalls(calls), StopCall("ptt"))
  /\ openStarts' = 0
  /\ UNCHANGED <<sinceLastPress, pendingSingleTapTimeout, isHandsFreeModeActive,
                 pendingHandsFreeStop, dictationMode, immediates, cleanupWaits, resetTimers>>
  /\ Observe("KeyUp", UpFeedback \o <<"push-to-talk-stop", "stop()">>, EpisodeOnUp)
  /\ UNCHANGED mon

\* push-to-talk release with the backend not recording: nothing to stop
KeyUpNoop ==
  /\ Monitored /\ ExternalEvent
  /\ ~isHandsFreeModeActive /\ ~pendingHandsFreeStop
  /\ ~ShouldStopOnRelease
  /\ pushToTalkService' = [pushToTalkService EXCEPT !.startedFromSingleTap = FALSE]
  /\ UNCHANGED <<sinceLastPress, pendingSingleTapTimeout, isHandsFreeModeActive,
                 pendingHandsFreeStop, dictationMode, calls, immediates, cleanupWaits,
                 resetTimers, openStarts>>
  /\ Observe("KeyUp", UpFeedback, EpisodeOnUp)
  /\ UNCHANGED mon

handleHotkeyUp ==
  \/ KeyUpSkipped
  \/ KeyUpStop
  \/ KeyUpNoop

\* ------------------------------------------------ deferred tasks and timers
\* setImmediate(() => { hardStop(); active = false; startedFromSingleTap = false })
DeferredHardStop ==
  /\ immediates > 0
  /\ immediates' = immediates - 1
  /\ IF HasService
     THEN /\ pushToTalkService' =
               [ServiceHardStop(pushToTalkService) EXCEPT !.active = FALSE,
                                                          !.startedFromSingleTap = FALSE]
          /\ calls' = AbortCalls(calls)
          /\ openStarts' = 0
     ELSE UNCHANGED <<pushToTalkService, calls, openStarts>>
  /\ UNCHANGED <<sinceLastPress, pendingSingleTapTimeout,
                 isHandsFreeModeActive, pendingHandsFreeStop, dictationMode, cleanupWaits,
                 resetTimers>>
  /\ Keep("DeferredHardStop", IF HasService THEN <<"hardStop()">> ELSE <<>>)
  /\ UNCHANGED mon
  /\ UNCHANGED eventsLeft

\* timers run in the loop's timer phase, after the immediates queued before them
TimersMayRun == immediates = 0

\* the double-tap handler resumes after its 10 ms delay and enters hands-free;
\* with pushToTalkService null it starts nothing and goes on to setDictationMode(true)
CleanupDelayElapsed ==
  /\ TimersMayRun
  /\ cleanupWaits # <<>> /\ Head(cleanupWaits) = 0
  /\ cleanupWaits' = Tail(cleanupWaits)
  /\ EnterHandsFree
  /\ dictationMode' = IF HasService THEN dictationMode ELSE TRUE
  /\ UNCHANGED <<pendingSingleTapTimeout, pendingHandsFreeStop, immediates, resetTimers>>
  /\ Keep("CleanupDelayElapsed",
          IF HasService THEN <<"dictation-start", "start()">> ELSE <<"dictation-start">>)
  /\ UNCHANGED mon
  /\ UNCHANGED eventsLeft

\* a single-tap timer that gates capture: start() is called when it fires
SingleTapTimeoutStartsCapture ==
  /\ TimersMayRun
  /\ pendingSingleTapTimeout = 0
  /\ pendingSingleTapTimeout' = NoTimer
  /\ Pending < MaxPending
  /\ calls' = AddCall(calls, StartCall("ptt"))
  /\ openStarts' = Min2(openStarts + 1, MaxCount)
  /\ UNCHANGED <<sinceLastPress, isHandsFreeModeActive, pendingHandsFreeStop,
                 dictationMode, pushToTalkService, immediates, cleanupWaits, resetTimers>>
  /\ Keep("SingleTapTimeout", <<"start()">>)
  /\ UNCHANGED mon
  /\ UNCHANGED eventsLeft

\* the 250 ms single-tap timer only clears its own handle
SingleTapTimeout ==
  /\ TimersMayRun
  /\ pendingSingleTapTimeout = 0
  /\ pendingSingleTapTimeout' = NoTimer
  /\ UNCHANGED <<sinceLastPress, isHandsFreeModeActive, pendingHandsFreeStop,
                 dictationMode, pushToTalkService, calls, immediates, cleanupWaits,
                 resetTimers, openStarts>>
  /\ Keep("SingleTapTimeout", <<>>)
  /\ UNCHANGED mon
  /\ UNCHANGED eventsLeft

\* the 100 ms timer of handleHotkeyUp clears pendingHandsFreeStop
PendingStopReset ==
  /\ TimersMayRun
  /\ resetTimers # <<>> /\ Head(resetTimers) = 0
  /\ resetTimers' = Tail(resetTimers)
  /\ pendingHandsFreeStop' = FALSE
  /\ UNCHANGED <<sinceLastPress, pendingSingleTapTimeout,
                 isHandsFreeModeActive, dictationMode, pushToTalkService, calls, immediates,
                 cleanupWaits, openStarts>>
  /\ Keep("PendingStopReset", <<>>)
  /\ UNCHANGED mon
  /\ UNCHANGED eventsLeft

\* ------------------------------------------------------ backend completions
\* start() resolves: the backend is recording unless hardStop() aborted the request
StartSucceeds(k) ==
  /\ k.op = "start" /\ calls[k] > 0
  /\ calls' = DropCall(calls, k)
  /\ pushToTalkService' =
       IF k.aborted THEN pushToTalkService
       ELSE [pushToTalkService EXCEPT !.active = TRUE, !.recordingStartTime = TRUE]
  /\ dictationMode' = IF k.cont = "hf" THEN TRUE ELSE dictationMode
  /\ UNCHANGED <<sinceLastPress, pendingSingleTapTimeout,
                 isHandsFreeModeActive, pendingHandsFreeStop, immediates, cleanupWaits,
                 resetTimers, openStarts>>
  /\ Keep("StartSucceeds", <<>>)
  /\ UNCHANGED mon
  /\ UNCHANGED eventsLeft

\* a start() rejection that the push-to-talk path swallows without telling the UI
StartFailsSilently(k) ==
  /\ k.op = "start" /\ calls[k] > 0
  /\ calls' = DropCall(calls, k)
  /\ openStarts' = IF k.open THEN Max2(openStarts - 1, 0) ELSE openStarts
  /\ IF k.cont = "hf"
     THEN /\ isHandsFreeModeActive' = FALSE
          /\ pushToTalkService' = [pushToTalkService EXCEPT !.isHandsFreeMode = FALSE]
          /\ dictationMode' = TRUE
          /\ Keep("StartFails", <<"dictation-stop">>)
     ELSE /\ UNCHANGED <<isHandsFreeModeActive, pushToTalkService, dictationMode>>
          /\ Keep("StartFails", <<>>)
  /\ UNCHANGED <<sinceLastPress, pendingSingleTapTimeout, pendingHandsFreeStop,
                 immediates, cleanupWaits, resetTimers>>
  /\ UNCHANGED mon
  /\ UNCHANGED eventsLeft

\* start() rejects: push-to-talk tells the UI to cancel; the hands-free entry
\* leaves hands-free mode, emits dictation-stop and then sets dictation mode
StartFails(k) ==
  /\ k.op = "start" /\ calls[k] > 0
  /\ calls' = DropCall(calls, k)
  /\ openStarts' = IF k.open THEN Max2(openStarts - 1, 0) ELSE openStarts
  /\ IF k.cont = "hf"
     THEN /\ isHandsFreeModeActive' = FALSE
          /\ pushToTalkService' = [pushToTalkService EXCEPT !.isHandsFreeMode = FALSE]
          /\ dictationMode' = TRUE
          /\ Keep("StartFails", <<"dictation-stop">>)
     ELSE /\ UNCHANGED <<isHandsFreeModeActive, pushToTalkService, dictationMode>>
          /\ Keep("StartFails", <<"push-to-talk-cancel">>)
  /\ UNCHANGED <<sinceLastPress, pendingSingleTapTimeout, pendingHandsFreeStop,
                 immediates, cleanupWaits, resetTimers>>
  /\ UNCHANGED mon
  /\ UNCHANGED eventsLeft

AfterStop(k) ==
  IF k.aborted THEN pushToTalkService
  ELSE [pushToTalkService EXCEPT
          !.transcribing = LiveStops(DropCall(calls, k)) > 0,
          !.recordingStartTime = IF pushToTalkService.active THEN @ ELSE FALSE]

CloseExit == IF ep.kind = "exit" THEN [ep EXCEPT !.kind = "exitDone"] ELSE ep

\* stop() resolves: transcription is over; the hands-free exit finishes, unless
\* pushToTalkService has become null, when its next statement throws
StopSucceeds(k) ==
  /\ k.op = "stop" /\ calls[k] > 0
  /\ calls' = DropCall(calls, k)
  /\ IF k.cont = "hfexit" /\ HasService
     THEN /\ pushToTalkService' = [AfterStop(k) EXCEPT !.isHandsFreeMode = FALSE]
          /\ dictationMode' = FALSE
          /\ sinceLastPress' = NoPress
          /\ pendingHandsFreeStop' = FALSE
          /\ Observe("StopSucceeds", <<"dictation-stop">>, CloseExit)
     ELSE /\ pushToTalkService' = AfterStop(k)
          /\ UNCHANGED <<dictationMode, sinceLastPress, pendingHandsFreeStop>>
          /\ Observe("StopSucceeds", <<>>, IF k.cont = "hfexit" THEN CloseExit ELSE ep)
  /\ UNCHANGED <<pendingSingleTapTimeout, isHandsFreeModeActive, immediates,
                 cleanupWaits, resetTimers, openStarts>>
  /\ UNCHANGED mon
  /\ UNCHANGED eventsLeft

\* stop() rejects: stopPushToTalk logs it; the hands-free exit handler is left
\* by the exception before any of its cleanup
StopFails(k) ==
  /\ k.op = "stop" /\ calls[k] > 0
  /\ calls' = DropCall(calls, k)
  /\ pushToTalkService' = AfterStop(k)
  /\ UNCHANGED <<sinceLastPress, pendingSingleTapTimeout,
                 isHandsFreeModeActive, pendingHandsFreeStop, dictationMode, immediates,
                 cleanupWaits, resetTimers, openStarts>>
  /\ Observe("StopFails", <<>>, IF k.cont = "hfexit" THEN CloseExit ELSE ep)
  /\ UNCHANGED mon
  /\ UNCHANGED eventsLeft

\* ------------------------------------------- hotkey monitoring and settings
\* pushToTalkService = null: the promises in flight belong to an instance the
\* controller no longer refers to
DetachCalls(cs) == AbortCalls(cs)

\* stopHotkeyMonitoring(): unbind the key monitor, stop() the service if it is
\* active, drop the reference to it
TeardownEmits ==
  <<"teardown">> \o (IF HasService /\ pushToTalkService.active THEN <<"stop()">> ELSE <<>>)

\* universalKeyService.stop() that leaves the monitor bound
MonitorsAfterStopLeaked == boundMonitors

\* universalKeyService.stop() when a monitor is referenced
MonitorsAfterStop == IF Monitored THEN boundMonitors - 1 ELSE boundMonitors

stopHotkeyMonitoring ==
  /\ universalKeyService' = NoMonitor
  /\ boundMonitors' = MonitorsAfterStop
  /\ pushToTalkService' = NewService
  /\ serviceConfig' = NoService
  /\ calls' = DetachCalls(calls)
  /\ openStarts' = 0
  /\ UNCHANGED <<isHotkeyMonitoringActive, lastActiveHotkey>>

\* startHotkeyMonitoring() returns at once when monitoring is active for the same hotkey
AlreadyMonitoring ==
  isHotkeyMonitoringActive /\ Monitored /\ settings.hotkey = lastActiveHotkey

StartEmits(ok) ==
  IF AlreadyMonitoring THEN <<>>
  ELSE (IF isHotkeyMonitoringActive THEN TeardownEmits ELSE <<>>)
       \o (IF settings.hotkey \notin Hotkeys THEN <<"fallback">>
           ELSE IF ok THEN <<"bind">> ELSE <<>>)

\* if (isHotkeyMonitoringActive) stopHotkeyMonitoring(): the monitor count
\* before startHotkeyMonitoring() builds a new monitor
MonitorsBeforeBind ==
  IF isHotkeyMonitoringActive THEN MonitorsAfterStop ELSE boundMonitors

\* the unsupported-hotkey branch without its retry timer
UnsupportedHotkeyFallbackNoRetry(timers) ==
  /\ settings' = [settings EXCEPT !.hotkey = "fn"]
  /\ restartTimers' = timers
  /\ universalKeyService' = IF isHotkeyMonitoringActive THEN NoMonitor ELSE universalKeyService
  /\ boundMonitors' = MonitorsBeforeBind
  /\ UNCHANGED <<isHotkeyMonitoringActive, lastActiveHotkey>>

\* the hotkey is none of fn, option, control: the setting is rewritten to 'fn'
\* and startHotkeyMonitoring() is called again after 100 ms
UnsupportedHotkeyFallback(timers) ==
  /\ Pending - Len(restartTimers) + Len(timers) < MaxPending
  /\ settings' = [settings EXCEPT !.hotkey = "fn"]
  /\ restartTimers' = Append(timers, FallbackDelay)
  /\ universalKeyService' = IF isHotkeyMonitoringActive THEN NoMonitor ELSE universalKeyService
  /\ boundMonitors' = MonitorsBeforeBind
  /\ UNCHANGED <<isHotkeyMonitoringActive, lastActiveHotkey>>

\* startHotkeyMonitoring() without its early return: it always rebuilds
startHotkeyMonitoringAlways(ok, timers) ==
  /\ pushToTalkService' = NewService
  /\ serviceConfig' = ConfigOf(settings)
  /\ calls' = DetachCalls(calls)
  /\ openStarts' = 0
  /\ IF settings.hotkey \in Hotkeys
     THEN /\ universalKeyService' = IF ok THEN settings.hotkey ELSE NoMonitor
          /\ boundMonitors' = MonitorsBeforeBind + (IF ok THEN 1 ELSE 0)
          /\ isHotkeyMonitoringActive' = (ok \/ isHotkeyMonitoringActive)
          /\ lastActiveHotkey' = IF ok THEN settings.hotkey ELSE lastActiveHotkey
          /\ restartTimers' = timers
          /\ UNCHANGED settings
     ELSE UnsupportedHotkeyFallback(timers)

\* startHotkeyMonitoring(); ok is the result of universalKeyService.start(currentHotkey),
\* timers are the restart timers pending when it is called
startHotkeyMonitoring(ok, timers) ==
  IF AlreadyMonitoring
  THEN /\ UNCHANGED <<universalKeyService, boundMonitors, isHotkeyMonitoringActive,
                      lastActiveHotkey, serviceConfig, pushToTalkService, calls, openStarts,
                      settings>>
       /\ restartTimers' = timers
  ELSE /\ pushToTalkService' = NewService
       /\ serviceConfig' = ConfigOf(settings)
       /\ calls' = DetachCalls(calls)
       /\ openStarts' = 0
       /\ IF settings.hotkey \in Hotkeys
          THEN /\ universalKeyService' = IF ok THEN settings.hotkey ELSE NoMonitor
               /\ boundMonitors' = MonitorsBeforeBind + (IF ok THEN 1 ELSE 0)
               /\ isHotkeyMonitoringActive' = (ok \/ isHotkeyMonitoringActive)
               /\ lastActiveHotkey' = IF ok THEN settings.hotkey ELSE lastActiveHotkey
               /\ restartTimers' = timers
               /\ UNCHANGED settings
          ELSE UnsupportedHotkeyFallback(timers)

\* what no settings or monitoring step touches
SessionFrame ==
  UNCHANGED <<sinceLastPress, pendingSingleTapTimeout, isHandsFreeModeActive,
              pendingHandsFreeStop, dictationMode, immediates, cleanupWaits, resetTimers,
              onb, flow>>

NoRestart ==
  UNCHANGED <<universalKeyService, boundMonitors, isHotkeyMonitoringActive, lastActiveHotkey, serviceConfig,
              restartTimers, pushToTalkService, calls, openStarts>>

\* SettingsIPCHandlers.restartHotkeyMonitoring(delay), called n times in a row
Restart(n, delay) ==
  /\ Pending + n <= MaxPending
  /\ stopHotkeyMonitoring
  /\ restartTimers' = restartTimers \o [i \in 1..n |-> delay]

\* ipcMain.handle('app:update-settings'): restarts for a changed hotkey and
\* again for a changed audioFeedback
AppUpdateSettings(u) ==
  /\ settings' = u
  /\ SessionFrame
  /\ LET n == (IF u.hotkey # settings.hotkey THEN 1 ELSE 0)
              + (IF u.audioFeedback # settings.audioFeedback THEN 1 ELSE 0) IN
       IF n > 0
       THEN Restart(n, RestartDelay) /\ Keep("app:update-settings", TeardownEmits)
       ELSE NoRestart /\ Keep("app:update-settings", <<>>)
  /\ UNCHANGED deactivated
  /\ ExternalEvent

\* ipcMain.handle('app-settings:update'): restarts only for a changed hotkey
AppSettingsUpdate(u) ==
  /\ settings' = u
  /\ SessionFrame
  /\ IF u.hotkey # settings.hotkey
     THEN Restart(1, HotkeyRestartDelay) /\ Keep("app-settings:update", TeardownEmits)
     ELSE NoRestart /\ Keep("app-settings:update", <<>>)
  /\ UNCHANGED deactivated
  /\ ExternalEvent

\* ipcMain.handle('set-streaming-mode'): the handlers' own pushToTalkService
\* reference is never set, so only the stored setting changes
SetStreamingMode(enabled) ==
  /\ settings' = [settings EXCEPT !.useDeepgramStreaming = enabled]
  /\ SessionFrame
  /\ NoRestart
  /\ Keep("set-streaming-mode", <<>>)
  /\ UNCHANGED deactivated
  /\ ExternalEvent

\* the timer of restartHotkeyMonitoring calls startHotkeyMonitoring()
RestartTimerFires(ok) ==
  /\ TimersMayRun
  /\ \E i \in 1..Len(restartTimers) :
       /\ restartTimers[i] = 0
       /\ startHotkeyMonitoring(ok, [j \in 1..(Len(restartTimers) - 1) |->
                                       IF j < i THEN restartTimers[j]
                                       ELSE restartTimers[j + 1]])
  /\ SessionFrame
  /\ Keep("RestartTimer", StartEmits(ok))
  /\ UNCHANGED <<deactivated, eventsLeft>>

\* activateOverlaysAndShortcuts() calls startHotkeyMonitoring()
ActivateOverlays(ok) ==
  /\ startHotkeyMonitoring(ok, restartTimers)
  /\ SessionFrame
  /\ Keep("activate", StartEmits(ok))
  /\ deactivated' = FALSE
  /\ ExternalEvent

\* deactivateOverlaysAndShortcuts() and the quit handlers call
\* stopHotkeyMonitoring(); the stop() they would call next finds
\* pushToTalkService already null
DeactivateOverlays ==
  /\ stopHotkeyMonitoring
  /\ SessionFrame
  /\ UNCHANGED <<settings, restartTimers>>
  /\ Keep("deactivate", TeardownEmits)
  /\ deactivated' = TRUE
  /\ ExternalEvent

\* ---------------------------------------------------------------------- time
\* instants after a key press at which the model looks at the clock again
PressGrid == {10, 20, 30, 150, 300, DoubleTapMax}

SetMin(S) == CHOOSE x \in S : \A y \in S : x <= y
SeqRange(q) == {q[i] : i \in 1..Len(q)}

\* how long until the next grid instant or the next timer, whichever is first
Horizon ==
  (IF sinceLastPress # NoPress /\ sinceLastPress < DoubleTapMax
   THEN {SetMin({g \in PressGrid : g > sinceLastPress}) - sinceLastPress} ELSE {})
  \cup (IF pendingSingleTapTimeout > 0 THEN {pendingSingleTapTimeout} ELSE {})
  \cup {r \in SeqRange(cleanupWaits) \cup SeqRange(resetTimers)
                \cup SeqRange(restartTimers) : r > 0}

Elapse(t, d) == IF t < 0 THEN t ELSE Max2(t - d, 0)
ElapseAll(q, d) == [i \in 1..Len(q) |-> Elapse(q[i], d)]
Due(q) == q # <<>> /\ Head(q) = 0

\* time passes up to the horizon; a due timer or a queued immediate runs first
Tick ==
  /\ immediates = 0
  /\ pendingSingleTapTimeout # 0 /\ ~Due(cleanupWaits) /\ ~Due(resetTimers)
  /\ \A i \in 1..Len(restartTimers) : restartTimers[i] > 0
  /\ Horizon # {}
  /\ LET d == SetMin(Horizon) IN
       /\ sinceLastPress' = IF sinceLastPress = NoPress THEN NoPress
                            ELSE Min2(sinceLastPress + d, DoubleTapMax)
       /\ pendingSingleTapTimeout' = Elapse(pendingSingleTapTimeout, d)
       /\ cleanupWaits' = ElapseAll(cleanupWaits, d)
       /\ resetTimers' = ElapseAll(resetTimers, d)
       /\ restartTimers' = ElapseAll(restartTimers, d)
  /\ UNCHANGED <<isHandsFreeModeActive, pendingHandsFreeStop, dictationMode,
                 pushToTalkService, calls, immediates, openStarts>>
  /\ UNCHANGED <<settings, universalKeyService, boundMonitors, isHotkeyMonitoringActive,
                 lastActiveHotkey, serviceConfig, deactivated, onb, flow>>
  /\ Keep("Tick", <<>>)
  /\ UNCHANGED eventsLeft

Next ==
  \/ handleHotkeyDown
  \/ handleHotkeyUp
  \/ DeferredHardStop
  \/ CleanupDelayElapsed
  \/ SingleTapTimeout
  \/ PendingStopReset
  \/ \E k \in CallKinds : StartSucceeds(k)
  \/ \E k \in CallKinds : StartFails(k)
  \/ \E k \in CallKinds : StopSucceeds(k)
  \/ \E k \in CallKinds : StopFails(k)
  \/ Tick

Spec == Init /\ [][Next]_vars

\* the same program with the gesture episodes observed
InitEpisodes ==
  /\ sinceLastPress = NoPress
  /\ pendingSingleTapTimeout = NoTimer
  /\ isHandsFreeModeActive = FALSE
  /\ pendingHandsFreeStop = FALSE
  /\ dictationMode = FALSE
  /\ pushToTalkService = NewService
  /\ calls = NoCalls
  /\ immediates = 0
  /\ cleanupWaits = <<>>
  /\ resetTimers = <<>>
  /\ settings = DefaultSettings
  /\ universalKeyService = DefaultSettings.hotkey
  /\ boundMonitors = 1
  /\ isHotkeyMonitoringActive = TRUE
  /\ lastActiveHotkey = DefaultSettings.hotkey
  /\ serviceConfig = ConfigOf(DefaultSettings)
  /\ restartTimers = <<>>
  /\ deactivated = FALSE
  /\ onboardingCompleted = TRUE
  /\ isVoiceTutorialMode = FALSE
  /\ currentStep = WelcomeStep
  /\ userName = ""
  /\ corePermissionsGranted = FALSE
  /\ isTransitioning = FALSE
  /\ transitions = <<>>
  /\ osPermissions = FALSE
  /\ eventsLeft = Unlimited
  /\ out = [by |-> "Init", emits |-> <<>>, dt |-> NoPress]
  /\ sent = NoneSent
  /\ openStarts = 0
  /\ dictation = "unobserved"
  /\ ep = NoEpisode

SpecEpisodes == InitEpisodes /\ [][Next]_vars

\* the controller together with the settings channels and the monitoring lifecycle
NextSettings ==
  \/ Next
  \/ \E u \in Settings : AppUpdateSettings(u)
  \/ \E u \in Settings : AppSettingsUpdate(u)
  \/ \E enabled \in BOOLEAN : SetStreamingMode(enabled)
  \/ \E ok \in BOOLEAN : RestartTimerFires(ok)
  \/ \E ok \in BOOLEAN : ActivateOverlays(ok)

InitSettings ==
  /\ sinceLastPress = NoPress
  /\ pendingSingleTapTimeout = NoTimer
  /\ isHandsFreeModeActive = FALSE
  /\ pendingHandsFreeStop = FALSE
  /\ dictationMode = FALSE
  /\ pushToTalkService = NewService
  /\ calls = NoCalls
  /\ immediates = 0
  /\ cleanupWaits = <<>>
  /\ resetTimers = <<>>
  /\ settings = DefaultSettings
  /\ universalKeyService = DefaultSettings.hotkey
  /\ boundMonitors = 1
  /\ isHotkeyMonitoringActive = TRUE
  /\ lastActiveHotkey = DefaultSettings.hotkey
  /\ serviceConfig = ConfigOf(DefaultSettings)
  /\ restartTimers = <<>>
  /\ deactivated = FALSE
  /\ onboardingCompleted = TRUE
  /\ isVoiceTutorialMode = FALSE
  /\ currentStep = WelcomeStep
  /\ userName = ""
  /\ corePermissionsGranted = FALSE
  /\ isTransitioning = FALSE
  /\ transitions = <<>>
  /\ osPermissions = FALSE
  /\ eventsLeft = MaxEvents
  /\ out = [by |-> "Init", emits |-> <<>>, dt |-> NoPress]
  /\ sent = NoneSent
  /\ openStarts = 0
  /\ dictation = "unobserved"
  /\ ep = Unwatched

SpecSettings == InitSettings /\ [][NextSettings]_vars

\* the same with deactivation (logout, quit) between the activations
NextLifecycle ==
  \/ NextSettings
  \/ DeactivateOverlays

SpecLifecycle == InitSettings /\ [][NextLifecycle]_vars

\* ipcMain.on('set-voice-tutorial-mode')
SetVoiceTutorialMode(enabled) ==
  /\ isVoiceTutorialMode' = enabled
  /\ UNCHANGED <<ctl, openStarts, onboardingCompleted, settings, universalKeyService,
                 boundMonitors, isHotkeyMonitoringActive, lastActiveHotkey, serviceConfig, restartTimers,
                 deactivated, flow>>
  /\ Keep("set-voice-tutorial-mode", <<>>)
  /\ ExternalEvent

\* markOnboardingCompleted() writes onboardingCompleted: true to the config file
markOnboardingCompleted ==
  /\ ~onboardingCompleted
  /\ onboardingCompleted' = TRUE
  /\ UNCHANGED <<ctl, openStarts, isVoiceTutorialMode, settings, universalKeyService,
                 boundMonitors, isHotkeyMonitoringActive, lastActiveHotkey, serviceConfig, restartTimers,
                 deactivated, flow>>
  /\ Keep("markOnboardingCompleted", <<>>)
  /\ ExternalEvent

\* the controller while the user goes through onboarding: the onboarding flow
\* has started the key monitor, onboarding is not completed yet
NextOnboarding ==
  \/ Next
  \/ \E enabled \in BOOLEAN : SetVoiceTutorialMode(enabled)
  \/ markOnboardingCompleted

InitOnboarding ==
  /\ sinceLastPress = NoPress
  /\ pendingSingleTapTimeout = NoTimer
  /\ isHandsFreeModeActive = FALSE
  /\ pendingHandsFreeStop = FALSE
  /\ dictationMode = FALSE
  /\ pushToTalkService = NewService
  /\ calls = NoCalls
  /\ immediates = 0
  /\ cleanupWaits = <<>>
  /\ resetTimers = <<>>
  /\ settings = DefaultSettings
  /\ universalKeyService = DefaultSettings.hotkey
  /\ boundMonitors = 1
  /\ isHotkeyMonitoringActive = TRUE
  /\ lastActiveHotkey = DefaultSettings.hotkey
  /\ serviceConfig = ConfigOf(DefaultSettings)
  /\ restartTimers = <<>>
  /\ deactivated = FALSE
  /\ onboardingCompleted = FALSE
  /\ isVoiceTutorialMode = FALSE
  /\ currentStep = WelcomeStep
  /\ userName = ""
  /\ corePermissionsGranted = FALSE
  /\ isTransitioning = FALSE
  /\ transitions = <<>>
  /\ osPermissions = FALSE
  /\ eventsLeft = Unlimited
  /\ out = [by |-> "Init", emits |-> <<>>, dt |-> NoPress]
  /\ sent = NoneSent
  /\ openStarts = 0
  /\ dictation = "unobserved"
  /\ ep = Unwatched

SpecOnboarding == InitOnboarding /\ [][NextOnboarding]_vars

\* the controller with the dictation notifications followed from the start
InitDictation ==
  /\ sinceLastPress = NoPress
  /\ pendingSingleTapTimeout = NoTimer
  /\ isHandsFreeModeActive = FALSE
  /\ pendingHandsFreeStop = FALSE
  /\ dictationMode = FALSE
  /\ pushToTalkService = NewService
  /\ calls = NoCalls
  /\ immediates = 0
  /\ cleanupWaits = <<>>
  /\ resetTimers = <<>>
  /\ settings = DefaultSettings
  /\ universalKeyService = DefaultSettings.hotkey
  /\ boundMonitors = 1
  /\ isHotkeyMonitoringActive = TRUE
  /\ lastActiveHotkey = DefaultSettings.hotkey
  /\ serviceConfig = ConfigOf(DefaultSettings)
  /\ restartTimers = <<>>
  /\ deactivated = FALSE
  /\ onboardingCompleted = TRUE
  /\ isVoiceTutorialMode = FALSE
  /\ currentStep = WelcomeStep
  /\ userName = ""
  /\ corePermissionsGranted = FALSE
  /\ isTransitioning = FALSE
  /\ transitions = <<>>
  /\ osPermissions = FALSE
  /\ eventsLeft = Unlimited
  /\ out = [by |-> "Init", emits |-> <<>>, dt |-> NoPress]
  /\ sent = NoneSent
  /\ openStarts = 0
  /\ dictation = "closed"
  /\ ep = Unwatched

SpecDictation == InitDictation /\ [][Next]_vars

\* the application from its launch (the activation that starts monitoring is
\* one event more), with any hotkey in the stored settings and any hotkey
\* chosen later; the key monitor starts whenever it is asked to
NextFallback ==
  \/ Next
  \/ \E h \in Hotkeys \cup UnsupportedHotkeys :
       AppSettingsUpdate([settings EXCEPT !.hotkey = h])
  \/ RestartTimerFires(TRUE)
  \/ ActivateOverlays(TRUE)

InitFallback ==
  /\ sinceLastPress = NoPress
  /\ pendingSingleTapTimeout = NoTimer
  /\ isHandsFreeModeActive = FALSE
  /\ pendingHandsFreeStop = FALSE
  /\ dictationMode = FALSE
  /\ pushToTalkService = NewService
  /\ calls = NoCalls
  /\ immediates = 0
  /\ cleanupWaits = <<>>
  /\ resetTimers = <<>>
  /\ settings \in {[DefaultSettings EXCEPT !.hotkey = h] : h \in Hotkeys \cup UnsupportedHotkeys}
  /\ universalKeyService = NoMonitor
  /\ boundMonitors = 0
  /\ isHotkeyMonitoringActive = FALSE
  /\ lastActiveHotkey = NoMonitor
  /\ serviceConfig = NoService
  /\ restartTimers = <<>>
  /\ deactivated = FALSE
  /\ onboardingCompleted = TRUE
  /\ isVoiceTutorialMode = FALSE
  /\ currentStep = WelcomeStep
  /\ userName = ""
  /\ corePermissionsGranted = FALSE
  /\ isTransitioning = FALSE
  /\ transitions = <<>>
  /\ osPermissions = FALSE
  /\ eventsLeft = MaxEvents + 1
  /\ out = [by |-> "Init", emits |-> <<>>, dt |-> NoPress]
  /\ sent = NoneSent
  /\ openStarts = 0
  /\ dictation = "unobserved"
  /\ ep = Unwatched

\* every timer and deferred task runs and time passes
SpecFallback ==
  /\ InitFallback /\ [][NextFallback]_vars
  /\ WF_vars(DeferredHardStop)
  /\ WF_vars(CleanupDelayElapsed)
  /\ WF_vars(SingleTapTimeout)
  /\ WF_vars(PendingStopReset)
  /\ WF_vars(RestartTimerFires(TRUE))
  /\ WF_vars(Tick)

\* ------------------------------------------------------- the onboarding flow
\* what the user can have in the name field: nothing, blanks only, or a name
Names == {"", " ", "Al"}

\* userName.trim()
Trim(n) == IF n = " " THEN "" ELSE n

\* canContinue()
CanContinue ==
  IF currentStep = WelcomeStep THEN Len(Trim(userName)) > 0
  ELSE IF currentStep = PermissionsStep THEN corePermissionsGranted
  ELSE TRUE

\* what the main-process model does not see of the renderer, and the reverse
NotFlow == <<ctl, settings, universalKeyService, boundMonitors, isHotkeyMonitoringActive,
             lastActiveHotkey, serviceConfig, restartTimers, deactivated, onb, eventsLeft,
             openStarts>>

\* nextStep() from the Continue button, which is disabled unless canContinue()
ClickContinue ==
  /\ CanContinue
  /\ IF currentStep < LastStep
     THEN /\ Len(transitions) < MaxPending
          /\ isTransitioning' = TRUE
          /\ transitions' = Append(transitions, currentStep + 1)
     ELSE UNCHANGED <<isTransitioning, transitions>>
  /\ UNCHANGED <<currentStep, userName, corePermissionsGranted, osPermissions>>
  /\ Keep("Continue", IF currentStep < LastStep THEN <<>> ELSE <<"onComplete">>)
  /\ UNCHANGED NotFlow

\* prevStep() from the Back button, which is shown when currentStep > 0
ClickBack ==
  /\ currentStep > 0
  /\ Len(transitions) < MaxPending
  /\ isTransitioning' = TRUE
  /\ transitions' = Append(transitions, currentStep - 1)
  /\ UNCHANGED <<currentStep, userName, corePermissionsGranted, osPermissions>>
  /\ Keep("Back", <<>>)
  /\ UNCHANGED NotFlow

\* the 150 ms timer of nextStep() or prevStep() sets the step its click computed
TransitionElapsed ==
  /\ transitions # <<>>
  /\ currentStep' = Head(transitions)
  /\ isTransitioning' = FALSE
  /\ transitions' = Tail(transitions)
  /\ UNCHANGED <<userName, corePermissionsGranted, osPermissions>>
  /\ Keep("TransitionElapsed", <<>>)
  /\ UNCHANGED NotFlow

\* WelcomeScreen.handleNameChange: typing in the name field
NameChange(n) ==
  /\ currentStep = WelcomeStep
  /\ userName' = n
  /\ UNCHANGED <<currentStep, corePermissionsGranted, isTransitioning, transitions,
                 osPermissions>>
  /\ Keep("onNameChange", <<>>)
  /\ UNCHANGED NotFlow

\* PermissionsScreen reports the permission status on mount, every 2 s and after a request
CorePermissionsChange ==
  /\ currentStep = PermissionsStep
  /\ corePermissionsGranted' = osPermissions
  /\ UNCHANGED <<currentStep, userName, isTransitioning, transitions, osPermissions>>
  /\ Keep("onCorePermissionsChange", <<>>)
  /\ UNCHANGED NotFlow

\* the user grants or revokes microphone or accessibility in the system
SystemPermissions(granted) ==
  /\ osPermissions' = granted
  /\ UNCHANGED <<currentStep, userName, corePermissionsGranted, isTransitioning, transitions>>
  /\ Keep("system permissions", <<>>)
  /\ UNCHANGED NotFlow

NextFlow ==
  \/ ClickContinue
  \/ ClickBack
  \/ TransitionElapsed
  \/ \E n \in Names : NameChange(n)
  \/ CorePermissionsChange
  \/ \E granted \in BOOLEAN : SystemPermissions(granted)

\* the OnboardingFlow component after mounting; the saved name, if any, is loaded
InitFlow ==
  /\ sinceLastPress = NoPress
  /\ pendingSingleTapTimeout = NoTimer
  /\ isHandsFreeModeActive = FALSE
  /\ pendingHandsFreeStop = FALSE
  /\ dictationMode = FALSE
  /\ pushToTalkService = NewService
  /\ calls = NoCalls
  /\ immediates = 0
  /\ cleanupWaits = <<>>
  /\ resetTimers = <<>>
  /\ settings = DefaultSettings
  /\ universalKeyService = NoMonitor
  /\ boundMonitors = 0
  /\ isHotkeyMonitoringActive = FALSE
  /\ lastActiveHotkey = NoMonitor
  /\ serviceConfig = NoService
  /\ restartTimers = <<>>
  /\ deactivated = FALSE
  /\ onboardingCompleted = FALSE
  /\ isVoiceTutorialMode = FALSE
  /\ currentStep = WelcomeStep
  /\ userName \in {"", "Al"}
  /\ corePermissionsGranted = FALSE
  /\ isTransitioning = FALSE
  /\ transitions = <<>>
  /\ osPermissions \in BOOLEAN
  /\ eventsLeft = Unlimited
  /\ out = [by |-> "Init", emits |-> <<>>, dt |-> NoPress]
  /\ sent = NoneSent
  /\ openStarts = 0
  /\ dictation = "unobserved"
  /\ ep = Unwatched

SpecFlow == InitFlow /\ [][NextFlow]_vars

\* the event loop runs every due timer, every backend promise settles and time
\* passes, but a deferred hardStop() need not return
SettleStep ==
  \/ \E k \in CallKinds : StartSucceeds(k) \/ StartFails(k)
  \/ \E k \in CallKinds : StopSucceeds(k) \/ StopFails(k)

SpecHardStopMayHang ==
  /\ Init /\ [][Next]_vars
  /\ WF_vars(CleanupDelayElapsed)
  /\ WF_vars(SingleTapTimeout)
  /\ WF_vars(PendingStopReset)
  /\ WF_vars(Tick)
  /\ WF_vars(SettleStep)

\* every timer and deferred task runs, every stop() settles and time passes,
\* but a start() need not settle
StopSettles == \E k \in CallKinds : StopSucceeds(k) \/ StopFails(k)

SpecStartMayHang ==
  /\ Init /\ [][Next]_vars
  /\ WF_vars(DeferredHardStop)
  /\ WF_vars(CleanupDelayElapsed)
  /\ WF_vars(SingleTapTimeout)
  /\ WF_vars(PendingStopReset)
  /\ WF_vars(Tick)
  /\ WF_vars(StopSettles)

\* every deferred task and timer runs, every backend promise settles and time
\* passes; key events come or not
SpecAllSettle ==
  /\ Init /\ [][Next]_vars
  /\ WF_vars(DeferredHardStop)
  /\ WF_vars(CleanupDelayElapsed)
  /\ WF_vars(SingleTapTimeout)
  /\ WF_vars(PendingStopReset)
  /\ WF_vars(Tick)
  /\ WF_vars(SettleStep)

\* the same, with every single backend promise settling, whatever else is in flight
Settles(k) == StartSucceeds(k) \/ StartFails(k) \/ StopSucceeds(k) \/ StopFails(k)

SpecEachSettles ==
  /\ Init /\ [][Next]_vars
  /\ WF_vars(DeferredHardStop)
  /\ WF_vars(CleanupDelayElapsed)
  /\ WF_vars(SingleTapTimeout)
  /\ WF_vars(PendingStopReset)
  /\ WF_vars(Tick)
  /\ \A k \in CallKinds : WF_vars(Settles(k))

TypeOK ==
  /\ sinceLastPress \in {NoPress} \cup 0..DoubleTapMax
  /\ pendingSingleTapTimeout \in {NoTimer} \cup 0..SingleTapDelay
  /\ Pending <= MaxPending
  /\ immediates <= Len(cleanupWaits)
  /\ openStarts \in 0..MaxCount
  /\ settings \in AnySettings
  /\ universalKeyService \in Hotkeys \cup {NoMonitor}
  /\ boundMonitors \in 0..MaxPending
  /\ lastActiveHotkey \in Hotkeys \cup {NoMonitor}
  /\ isHotkeyMonitoringActive \in BOOLEAN
  /\ serviceConfig.exists \in BOOLEAN
  /\ \A i \in 1..Len(restartTimers) : restartTimers[i] \in 0..HotkeyRestartDelay
  /\ eventsLeft \in {Unlimited} \cup 0..(MaxEvents + 1)
  /\ onboardingCompleted \in BOOLEAN /\ isVoiceTutorialMode \in BOOLEAN
  /\ deactivated \in BOOLEAN
  /\ currentStep \in WelcomeStep..LastStep
  /\ userName \in Names
  /\ corePermissionsGranted \in BOOLEAN /\ isTransitioning \in BOOLEAN
  /\ osPermissions \in BOOLEAN
  /\ Len(transitions) <= MaxPending
  /\ dictation \in {"unobserved", "closed", "open", "second start", "unmatched stop"}

\* ===================================================================== claims

\* C1: mutual exclusion: start() is never requested while an earlier start()
\* request has not been ended by stop(), hardStop() or a start failure, so at
\* most one recording session is open at any instant.
C1_MutualExclusion == openStarts <= 1

\* the phases a tap episode has gone through, the present one included
EpisodePath == Visit(ep.path, Phase)

\* C2: two KeyDown events from Idle with 20 ms < dt < 600 ms create one
\* hands-free session and hard-cancel the first one: once the second handler
\* has started the hands-free recording, hardStop() was issued once and exactly
\* one push-to-talk-cancel and one dictation-start were emitted.
C2_DoubleTapWindow ==
  (ep.kind = "tap" /\ ep.downs = 2 /\ ep.gap = "double"
     /\ cleanupWaits = <<>> /\ immediates = 0)
  => /\ sent["hardStop()"] = 1
     /\ sent["push-to-talk-cancel"] = 1
     /\ sent["dictation-start"] = 1

\* C3: KeyDown from Idle, KeyUp 150 ms later with the backend active and no
\* further KeyDown within 600 ms: the session went Starting, ActivePTT,
\* Stopping, Idle with exactly one push-to-talk-stop and no push-to-talk-cancel.
C3_NormalSingleTap ==
  (ep.kind = "tap" /\ ep.downs = 1 /\ ep.ups = 1 /\ ep.upActive /\ ep.upAt = 150
     /\ sinceLastPress = DoubleTapMax /\ InFlight = 0)
  => /\ EpisodePath = <<"Starting", "ActivePTT", "Stopping", "Idle">>
     /\ sent["push-to-talk-stop"] = 1
     /\ sent["push-to-talk-cancel"] = 0

\* C4: when further KeyDown events arrive before the stop() of a hands-free
\* exit has completed, stop() is called at most once and exactly one
\* dictation-stop is emitted.
C4_ExitIdempotent ==
  /\ (ep.kind = "exit" /\ ep.downs = 2) => (sent["stop()"] = 1 /\ sent["dictation-stop"] = 0)
  /\ (ep.kind = "exitDone" /\ ep.downs = 2)
       => (sent["stop()"] = 1 /\ sent["dictation-stop"] = 1)

Sent(c) == Emitted(c) > 0
ByKey == out.by \in {"KeyDown", "KeyUp"}

\* C5: a KeyDown that comes 20 ms or less after the recorded press (or with no
\* press recorded) is never taken for a double-tap: it neither enters hands-free mode, nor suspends a
\* handler that will, nor emits dictation-start.
C5_BounceNotDoubleTap ==
  [][(out'.by = "KeyDown" /\ sinceLastPress <= DoubleTapMin)
       => /\ isHandsFreeModeActive' => isHandsFreeModeActive
          /\ cleanupWaits' = cleanupWaits
          /\ Emitted("dictation-start")' = 0]_vars

C5_Witness ==
  /\ out.by = "KeyDown" /\ out.dt \in 0..DoubleTapMin
  /\ Sent("start()") /\ ~isHandsFreeModeActive

\* C6: a KeyDown 20 ms or less after the KeyDown that began a recording is
\* debounced: it calls neither start() nor hardStop() and emits no
\* push-to-talk-cancel.
C6_BounceIsOneTap ==
  [][(out'.by = "KeyDown" /\ sinceLastPress \in 0..DoubleTapMin /\ openStarts >= 1
        /\ ~isHandsFreeModeActive /\ ~pendingHandsFreeStop)
       => /\ Emitted("start()")' = 0
          /\ Emitted("hardStop()")' = 0
          /\ Emitted("push-to-talk-cancel")' = 0
          /\ immediates' = immediates]_vars

\* C7 as stated: a KeyDown 600 ms or more after the previous one starts a new
\* recording and never issues hardStop() or push-to-talk-cancel, whatever the
\* first session is doing.
C7_SlowTapNeverCancels ==
  [][(out'.by = "KeyDown" /\ sinceLastPress = DoubleTapMax
        /\ ~isHandsFreeModeActive /\ ~pendingHandsFreeStop)
       => /\ Emitted("start()")' = 1
          /\ Emitted("hardStop()")' = 0
          /\ Emitted("push-to-talk-cancel")' = 0]_vars

\* C7 as amended: outside hands-free mode, a KeyDown 600 ms or more after the
\* recorded press is never a double-tap; with the backend neither active nor transcribing it starts a new
\* recording without hardStop() or push-to-talk-cancel, and with the first
\* session still active or transcribing it cancels that session and starts none.
C7_SlowTapIndependent ==
  [][(out'.by = "KeyDown" /\ sinceLastPress = DoubleTapMax
        /\ ~isHandsFreeModeActive /\ ~pendingHandsFreeStop)
       => /\ ~isHandsFreeModeActive' /\ cleanupWaits' = cleanupWaits
          /\ immediates' = immediates
          /\ Emitted("dictation-start")' = 0
          /\ IF Busy(pushToTalkService)
             THEN /\ Emitted("start()")' = 0
                  /\ Emitted("hardStop()")' = 1
                  /\ Emitted("push-to-talk-cancel")' = 1
             ELSE /\ Emitted("start()")' = 1
                  /\ Emitted("hardStop()")' = 0
                  /\ Emitted("push-to-talk-cancel")' = 0]_vars

C7_Witness ==
  /\ out.by = "KeyDown" /\ out.dt = DoubleTapMax
  /\ Sent("start()") /\ ~Sent("hardStop()") /\ openStarts = 1

\* C8: push-to-talk records only while the key is held: after KeyDown from
\* Idle and its KeyUp, once nothing is pending any more the backend is not
\* recording.
C8_ReleaseEndsRecording ==
  (ep.kind = "tap" /\ ep.downs = 1 /\ ep.ups = 1 /\ InFlight = 0 /\ immediates = 0)
  => ~pushToTalkService.active

\* C9: the hands-free start() of a double-tap does not wait for the deferred
\* hardStop(): a handler suspended on the cleanup delay goes on to call
\* start() even if that hardStop() never returns.
C9_StartNotBlocked ==
  (cleanupWaits # <<>>) ~> (out.by = "CleanupDelayElapsed")

\* the handlers of handleHotkeyDown that are suspended at an await
Suspended ==
  Len(cleanupWaits)
  + SumOver(calls, {k \in CallKinds : k.cont \in {"hf", "hfexit"}})

\* C10: key events are serialized: no KeyDown or KeyUp is processed while
\* another key event's handler is suspended at an await.
C10_Serialized ==
  [][(out'.by \in {"KeyDown", "KeyUp"}) => Suspended = 0]_vars

\* in-flight calls by the code that awaits them
ExitStops(cs) == SumOver(cs, {k \in CallKinds : k.op = "stop" /\ k.cont = "hfexit"})
PttStarts(cs) == SumOver(cs, {k \in CallKinds : k.op = "start" /\ k.cont = "ptt"})

\* C11: pendingHandsFreeStop, once set by a hands-free exit, is cleared only
\* by the completion of that exit's stop(): no other step clears it, and it is
\* never false while the exit's stop() is in flight.
C11_PendingStopHeld ==
  [][(pendingHandsFreeStop /\ ~pendingHandsFreeStop')
       => (out'.by = "StopSucceeds" /\ ExitStops(calls') < ExitStops(calls))]_vars

\* C12: a KeyDown processed while pendingHandsFreeStop is set is dropped: no
\* notification, no backend call, and lastFnKeyTime, isHandsFreeModeActive,
\* pendingHandsFreeStop and the single-tap timer stay as they were.
C12_KeyDownDropped ==
  [][(out'.by = "KeyDown" /\ pendingHandsFreeStop)
       => /\ out'.emits = <<>>
          /\ UNCHANGED <<sinceLastPress, isHandsFreeModeActive, pendingHandsFreeStop,
                         pendingSingleTapTimeout, pushToTalkService, calls, immediates,
                         cleanupWaits>>]_vars

C12_Witness ==
  out.by = "KeyDown" /\ out.emits = <<>> /\ pendingHandsFreeStop /\ ExitStops(calls) > 0

\* C13 as stated: in hands-free mode a KeyUp calls neither stop() nor
\* hardStop() and leaves the mode active, and only a KeyDown ends the mode.
C13_OnlyKeyDownEnds ==
  [][/\ (out'.by = "KeyUp" /\ isHandsFreeModeActive)
          => /\ isHandsFreeModeActive'
             /\ Emitted("stop()")' = 0 /\ Emitted("hardStop()")' = 0
             /\ calls' = calls /\ immediates' = immediates
     /\ (isHandsFreeModeActive /\ ~isHandsFreeModeActive') => out'.by = "KeyDown"]_vars

\* C13 as amended: in hands-free mode a KeyUp calls neither stop() nor
\* hardStop(), changes nothing of the recording and leaves the mode active;
\* the mode is ended by a KeyDown or by the rejection of the hands-free start().
C13_KeyUpKeepsHandsFree ==
  [][/\ (out'.by = "KeyUp" /\ isHandsFreeModeActive)
          => /\ isHandsFreeModeActive'
             /\ Emitted("stop()")' = 0 /\ Emitted("hardStop()")' = 0
             /\ calls' = calls /\ immediates' = immediates
             /\ pushToTalkService'.active = pushToTalkService.active
             /\ pushToTalkService'.transcribing = pushToTalkService.transcribing
     /\ (isHandsFreeModeActive /\ ~isHandsFreeModeActive')
          => \/ out'.by = "KeyDown"
             \/ out'.by = "StartFails" /\ Emitted("dictation-stop")' = 1]_vars

C13_Witness ==
  /\ out.by = "KeyUp" /\ isHandsFreeModeActive
  /\ pushToTalkService.active /\ pushToTalkService.isHandsFreeMode

\* no session: nothing active, transcribing, in flight, deferred or suspended
NoSession ==
  /\ ~Busy(pushToTalkService) /\ ~isHandsFreeModeActive /\ ~pendingHandsFreeStop
  /\ InFlight = 0 /\ immediates = 0 /\ cleanupWaits = <<>>

\* C14: when the start() of a push-to-talk press is rejected the UI gets
\* push-to-talk-cancel; if that press was the only session the controller is
\* idle again (nothing active, transcribing, in flight or pending, no
\* hands-free mode); and from there the next KeyDown calls start() again, at
\* once or after the 10 ms cleanup delay.
C14_StartFailure ==
  [][/\ (out'.by = "StartFails" /\ PttStarts(calls') < PttStarts(calls))
          => /\ Emitted("push-to-talk-cancel")' = 1
             /\ (InFlight = 1 /\ ~Busy(pushToTalkService) /\ ~isHandsFreeModeActive
                   /\ ~pendingHandsFreeStop /\ immediates = 0 /\ cleanupWaits = <<>>)
                  => NoSession'
     /\ (NoSession /\ out'.by = "KeyDown")
          => \/ Emitted("start()")' = 1
             \/ Len(cleanupWaits') = Len(cleanupWaits) + 1]_vars

C14_Witness ==
  NoSession /\ out.by = "StartFails" /\ Sent("push-to-talk-cancel")

\* C15: a start() that neither resolves nor rejects does not leave the
\* controller in Starting for ever: it is forced back to Idle.
C15_StartTimesOut ==
  (Phase = "Starting") ~> (Phase # "Starting")

\* C16: when the stop() of a hands-free exit is rejected the exit still
\* completes: pendingHandsFreeStop and dictation mode are off and
\* dictation-stop is emitted.
C16_ExitSurvivesStopFailure ==
  [][(out'.by = "StopFails" /\ ExitStops(calls') < ExitStops(calls))
       => /\ ~isHandsFreeModeActive' /\ ~pendingHandsFreeStop' /\ ~dictationMode'
          /\ Emitted("dictation-stop")' = 1]_vars

\* C20: the KeyUp of a first tap that comes before the double-tap window has
\* closed leaves the optimistic session running: it calls neither stop() nor
\* hardStop().
C20_ReleaseInWindowKeepsSession ==
  [][(out'.by = "KeyUp" /\ sinceLastPress # NoPress /\ sinceLastPress < DoubleTapMax
        /\ ~isHandsFreeModeActive /\ ~pendingHandsFreeStop /\ openStarts = 1)
       => /\ Emitted("stop()")' = 0 /\ Emitted("hardStop()")' = 0
          /\ openStarts' = openStarts]_vars

\* the settings channels of SettingsIPCHandlers
UpdateChannels == {"app:update-settings", "app-settings:update", "set-streaming-mode"}

\* C17: startHotkeyMonitoring called while monitoring is active for the same
\* hotkey is a no-op: the key monitor and the PushToTalkService instance are
\* kept, nothing is torn down or stopped, no controller state changes.
C17_StartIsIdempotent ==
  [][(out'.by \in {"activate", "RestartTimer"} /\ AlreadyMonitoring)
       => /\ out'.emits = <<>>
          /\ UNCHANGED <<ctl, settings, universalKeyService, isHotkeyMonitoringActive,
                         lastActiveHotkey, serviceConfig, openStarts>>]_vars

C17_Witness ==
  /\ out.by = "activate" /\ out.emits = <<>> /\ AlreadyMonitoring
  /\ pushToTalkService.active

\* C18: a settings-driven restart discards a session that is not Idle by hard
\* cancellation: hardStop() is issued, not a graceful stop().
C18_RestartHardCancels ==
  [][(out'.by \in UpdateChannels /\ Emitted("teardown")' = 1 /\ Phase # "Idle")
       => (Emitted("hardStop()")' = 1 /\ Emitted("stop()")' = 0)]_vars

\* C19: a change of the hotkey, of audioFeedback or of the streaming mode
\* through any settings channel while monitoring is active tears the key
\* monitor down and schedules the re-binding.
C19_ChangeRestarts ==
  [][(out'.by \in UpdateChannels /\ Monitored /\ settings' # settings)
       => /\ universalKeyService' = NoMonitor
          /\ Len(restartTimers') > Len(restartTimers)]_vars

\* C21: when the start() of a superseded push-to-talk press settles after the
\* hands-free session of a double-tap has become current, the event is dropped:
\* no notification is emitted and no controller state of the current session
\* changes.
C21_StaleStartDropped ==
  [][(out'.by \in {"StartSucceeds", "StartFails"} /\ PttStarts(calls') < PttStarts(calls)
        /\ isHandsFreeModeActive)
       => /\ out'.emits = <<>>
          /\ UNCHANGED <<isHandsFreeModeActive, pendingHandsFreeStop, dictationMode,
                         sinceLastPress, pendingSingleTapTimeout, immediates,
                         cleanupWaits, resetTimers>>]_vars

\* the double-tap branch of handleHotkeyDown ran in the last step
TookDoubleTapBranch ==
  Emitted("dictation-start") = 1 \/ Sent("transcription-complete")

\* C22: a KeyDown processed with hands-free off and no pending stop takes the
\* double-tap branch if and only if a previous press is recorded and
\* 20 ms < timeSinceLastPress < 600 ms, both bounds strict; otherwise it
\* records the press and arms the single-tap timer.  Nothing but the recorded
\* press time and the clock decides.
C22_DoubleTapIff ==
  [][(out'.by = "KeyDown" /\ ~isHandsFreeModeActive /\ ~pendingHandsFreeStop)
       => IF sinceLastPress # NoPress /\ sinceLastPress > 20 /\ sinceLastPress < 600
          THEN /\ TookDoubleTapBranch' \/ Len(cleanupWaits') = Len(cleanupWaits) + 1
               /\ sinceLastPress' # 0
               /\ pendingSingleTapTimeout' = NoTimer
          ELSE /\ Emitted("dictation-start")' = 0
               /\ cleanupWaits' = cleanupWaits /\ ~isHandsFreeModeActive'
               /\ sinceLastPress' = 0
               /\ pendingSingleTapTimeout' = SingleTapDelay]_vars

C22_Witness ==
  /\ out.by = "KeyDown" /\ out.dt = DoubleTapMin
  /\ sinceLastPress = 0 /\ pendingSingleTapTimeout = SingleTapDelay
  /\ ~isHandsFreeModeActive /\ cleanupWaits = <<>>

\* C23: a KeyDown that the classifier does not take for a double-tap and that
\* finds the backend active or transcribing is a cancel: hardStop() is issued,
\* push-to-talk-cancel is emitted, the controller is Idle afterwards and that
\* KeyDown calls neither start() nor stop().
C23_RepressCancels ==
  [][(out'.by = "KeyDown" /\ ~isHandsFreeModeActive /\ ~pendingHandsFreeStop
        /\ ~IsDoubleTap /\ Busy(pushToTalkService))
       => /\ Emitted("hardStop()")' = 1
          /\ Emitted("push-to-talk-cancel")' = 1
          /\ Emitted("start()")' = 0 /\ Emitted("stop()")' = 0
          /\ Phase' = "Idle"
          /\ ~Busy(pushToTalkService') /\ openStarts' = 0
          /\ immediates' = immediates /\ cleanupWaits' = cleanupWaits]_vars

C23_Witness ==
  /\ out.by = "KeyDown" /\ Sent("hardStop()") /\ Sent("push-to-talk-cancel")
  /\ Phase = "Idle" /\ sinceLastPress = 0 /\ InFlight > 0

C25_ExitEndsHandsFree ==
  [][/\ (out'.by = "KeyDown" /\ isHandsFreeModeActive /\ ~pendingHandsFreeStop)
          => /\ ~isHandsFreeModeActive'
             /\ Emitted("hardStop()")' = 0 /\ Emitted("start()")' = 0
             /\ immediates' = immediates
             /\ IF Busy(pushToTalkService)
                THEN Emitted("stop()")' = 1
                ELSE Emitted("stop()")' = 0 /\ Emitted("dictation-stop")' = 1
     /\ (ExitStops(calls') < ExitStops(calls)) => Emitted("dictation-stop")' = 1]_vars

C27_GestureResetsState ==
  [][(\/ out'.by = "SingleTapTimeout"
      \/ Emitted("dictation-start")' = 1
      \/ (out'.by \in {"KeyDown", "StopSucceeds"} /\ Emitted("dictation-stop")' = 1))
       => (sinceLastPress' = NoPress /\ pendingSingleTapTimeout' = NoTimer)]_vars

\* C28: the controller always recovers: once the pending backend operations
\* have completed and the pending timers have fired, pendingHandsFreeStop is
\* false again, so that a KeyDown is accepted.
C28_AlwaysRecovers ==
  pendingHandsFreeStop ~> ~pendingHandsFreeStop

\* in-flight start() calls awaited by the hands-free entry
HandsFreeStarts(cs) == SumOver(cs, {k \in CallKinds : k.op = "start" /\ k.cont = "hf"})

\* C29: when the start() of a hands-free entry is rejected the handler ends
\* in Idle: isHandsFreeModeActive and the backend's hands-free flag are false,
\* dictation mode is off and dictation-stop has told the UI.
C29_HandsFreeStartFailure ==
  [][(out'.by = "StartFails" /\ HandsFreeStarts(calls') < HandsFreeStarts(calls))
       => /\ ~isHandsFreeModeActive'
          /\ ~pushToTalkService'.isHandsFreeMode
          /\ ~dictationMode'
          /\ Emitted("dictation-stop")' = 1]_vars

\* C30: while onboarding is not completed and voice-tutorial mode is off, a
\* KeyDown gives visual feedback only: it does not call start().
C30_OnboardingGate ==
  [][(out'.by = "KeyDown" /\ ~onboardingCompleted /\ ~isVoiceTutorialMode)
       => (Emitted("start()")' = 0 /\ calls' = calls)]_vars

\* C31: when startHotkeyMonitoring() finds a hotkey that is none of fn, option,
\* control, the stored hotkey is 'fn' when it returns, and from then on the key
\* monitor eventually listens to fn, unless the hotkey setting is changed again
FallbackTaken == out.by \in {"activate", "RestartTimer"} /\ "fallback" \in SeqRange(out.emits)

LiveHandsFreeStarts(cs) ==
  SumOver(cs, {k \in CallKinds : k.op = "start" /\ k.cont = "hf" /\ ~k.aborted})

C32_HardStopPrecedesStart ==
  [][(out'.by = "DeferredHardStop" /\ HasService)
       => ~(isHandsFreeModeActive
            /\ (LiveHandsFreeStarts(calls) > 0 \/ pushToTalkService.active))]_vars

\* C33: when a KeyDown has ended hands-free mode (dictation-stop emitted)
\* while the session's start() was still in flight, that start() eventually
\* has settled and the backend is not recording, whether or not another key
\* event comes.
ExitedWithStartInFlight ==
  /\ out.by = "KeyDown" /\ Sent("dictation-stop") /\ ~isHandsFreeModeActive
  /\ LiveHandsFreeStarts(calls) > 0

C33_ExitStopsLateRecording ==
  ExitedWithStartInFlight
    ~> (LiveHandsFreeStarts(calls) = 0 /\ ~pushToTalkService.active)

\* C34: dictation-start and dictation-stop alternate, beginning with
\* dictation-start: no dictation-start follows an unmatched dictation-start and
\* no dictation-stop comes without one.
C34_DictationAlternates ==
  dictation \in {"closed", "open"}

\* C35: a KeyUp in hands-free mode does not send recording-status with
\* recording = false.
C35_KeyUpKeepsRecordingStatus ==
  [][(out'.by = "KeyUp" /\ isHandsFreeModeActive) => Emitted("recording-off")' = 0]_vars

\* C36: when the restart timer of a settings change has bound the key
\* monitor again, the controller is in Idle: hands-free mode is off, no
\* hands-free stop is pending and the previous press is not within the
\* double-tap window.
C36_RestartLeavesIdle ==
  [][(out'.by = "RestartTimer" /\ Emitted("bind")' = 1)
       => /\ ~isHandsFreeModeActive'
          /\ ~pendingHandsFreeStop'
          /\ ~(sinceLastPress' # NoPress /\ sinceLastPress' < DoubleTapMax)]_vars

C38_DeactivationHolds ==
  [][(deactivated /\ ~Monitored /\ universalKeyService' # NoMonitor)
       => out'.by = "activate"]_vars

\* C39: the onboarding flow goes from the permissions step or an earlier one
\* to a later step only while the core permissions are reported granted, and
\* from the welcome step to a later one only while the name is not empty.
C39_FlowGates ==
  [][/\ (currentStep <= PermissionsStep /\ currentStep' > PermissionsStep)
          => corePermissionsGranted
     /\ (currentStep = WelcomeStep /\ currentStep' > WelcomeStep)
          => Len(Trim(userName)) > 0]_vars

====
